---- MODULE Spec2Model ----
(***************************************************************************)
(* Model of vtoolbox/sdof.py: the fixed-step integrators euler and rk4,    *)
(* the closed-form solvers analytical and forced_analytical, the beam      *)
(* modal solver euler_beam_modes and the FRF assembler euler_beam_frf.     *)
(*                                                                         *)
(* Numbers.  The integrators use only + - * /, so their values are kept as *)
(* exact rationals <<num, den>> (den > 0, lowest terms).  Square roots are *)
(* never approximated: a quantity defined by a square root is carried by   *)
(* its sign and its square.  Beam eigenvalues are fixed-point numbers in   *)
(* thousandths; pi is 3141593 millionths.  Floating-point rounding is not  *)
(* modelled.                                                               *)
(***************************************************************************)
EXTENDS Integers, Sequences, FiniteSets, TLC

VARIABLES
    fn,     \* the function being executed, "none" between calls
    pc,     \* the position inside it
    args,   \* its arguments
    i,      \* its loop counter
    x,      \* the state array of euler and rk4
    loc,    \* its other local variables
    ret     \* how the call ended and what it returned

vars == <<fn, pc, args, i, x, loc, ret>>

----------------------------------------------------------------------------
(* Bounds of the explored input space.                                     *)

\* largest step count n handed to euler
MaxN == 3
\* largest step count n handed to rk4
MaxNRk == 2
\* largest scalar mode count n handed to euler_beam_modes
MaxModes == 8
\* largest mode index in an explicit list of modes
MaxIndex == 8
\* largest sample count npoints handed to euler_beam_modes
MaxNPoints == 4
\* number of distinct cells of uninitialised memory
MemCells == 3
\* callbacks the event loop of plt.show() runs while a figure is open
MaxCallbacks == 1

----------------------------------------------------------------------------
(* Exact rational arithmetic.                                              *)

Abs(a) == IF a < 0 THEN -a ELSE a

RECURSIVE GCD(_, _)
GCD(a, b) == IF b = 0 THEN a ELSE GCD(b, a % b)

\* the rational n/d in lowest terms with a positive denominator (d # 0)
Q(n, d) ==
    LET g == GCD(Abs(n), Abs(d))
        s == IF d < 0 THEN -1 ELSE 1
    IN  <<s * (n \div g), s * (d \div g)>>

Z(n) == <<n, 1>>

RAdd(p, q) ==
    LET g == GCD(p[2], q[2])
    IN  Q(p[1] * (q[2] \div g) + q[1] * (p[2] \div g), (p[2] \div g) * q[2])

RNeg(p) == <<-p[1], p[2]>>

RSub(p, q) == RAdd(p, RNeg(q))

RMul(p, q) ==
    LET a == Q(p[1], q[2])
        b == Q(q[1], p[2])
    IN  <<a[1] * b[1], a[2] * b[2]>>

RDiv(p, q) == RMul(p, Q(q[2], q[1]))

RLt(p, q) == RSub(p, q)[1] < 0

\* vectors of the state space: <<displacement, velocity>>
VAdd(u, v) == <<RAdd(u[1], v[1]), RAdd(u[2], v[2])>>

VScale(s, v) == <<RMul(s, v[1]), RMul(s, v[2])>>

\* A@x_ for a 2x2 matrix A (a pair of rows) and a vector x_
MatVec(A, v) ==
    << RAdd(RMul(A[1][1], v[1]), RMul(A[1][2], v[2])),
       RAdd(RMul(A[2][1], v[1]), RMul(A[2][2], v[2])) >>

----------------------------------------------------------------------------
(* euler and rk4.                                                          *)

\* the arguments explored: m may be 0 (Python raises ZeroDivisionError)
Masses == {0, 1, 2}
Dampings == {0, 1}
Stiffnesses == {1, 2}
X0s == {0, 1}
V0s == {-1, 0}
\* step sizes dt, as rationals
Dts == {Q(1, 2), Z(1)}

\* a state matrix built without the interpreter's division check, as an
\* array division would build it (used to test the m = 0 property)
StateMatrixUnchecked(m, c, k) ==
    [ok |-> TRUE,
     val |-> << <<Z(0), Z(1)>>,
                <<Q(-k, IF m = 0 THEN 1 ELSE m), Q(-c, IF m = 0 THEN 1 ELSE m)>> >>]

\* sp.array([[0, 1], [-k / m, -c / m]]): m, c, k are Python numbers, so
\* -k / m raises ZeroDivisionError when m = 0
StateMatrix(m, c, k) ==
    IF m = 0
    THEN [ok |-> FALSE, error |-> "ZeroDivisionError"]
    ELSE [ok |-> TRUE, val |-> << <<Z(0), Z(1)>>, <<Q(-k, m), Q(-c, m)>> >>]

\* sp.zeros((n + 1, 2))
Zeros(n) == [j \in 1..(n + 1) |-> <<Z(0), Z(0)>>]

\* the update with the step size left out of the increment
EulerUpdateNoDt(A, dt, xi) == VAdd(xi, MatVec(A, xi))

\* x[i] + dt * A@x[i]
EulerUpdate(A, dt, xi) == VAdd(xi, VScale(dt, MatVec(A, xi)))

\* the update with the midpoint stages taken at the full increment
Rk4UpdateFullStage(A, dt, xi) ==
    LET k1 == VScale(dt, MatVec(A, xi))
        k2 == VScale(dt, MatVec(A, VAdd(xi, k1)))
        k3 == VScale(dt, MatVec(A, VAdd(xi, k2)))
        k4 == VScale(dt, MatVec(A, VAdd(xi, k3)))
    IN  VAdd(xi, VScale(Q(1, 6),
                 VAdd(VAdd(k1, VScale(Z(2), VAdd(k2, k3))), k4)))

\* the body of rk4's loop: the new row computed from row xi
Rk4Update(A, dt, xi) ==
    LET k1 == VScale(dt, MatVec(A, xi))
        k2 == VScale(dt, MatVec(A, VAdd(xi, VScale(Q(1, 2), k1))))
        k3 == VScale(dt, MatVec(A, VAdd(xi, VScale(Q(1, 2), k2))))
        k4 == VScale(dt, MatVec(A, VAdd(xi, k3)))
    IN  VAdd(xi, VScale(Q(1, 6),
                 VAdd(VAdd(k1, VScale(Z(2), VAdd(k2, k3))), k4)))

NoRet == [status |-> "none"]

RECURSIVE EulerRows(_, _, _, _)
\* rows 0..n of x after the loop of euler has run n times from row0
EulerRows(A, dt, row0, n) ==
    IF n = 0 THEN <<row0>>
    ELSE LET prev == EulerRows(A, dt, row0, n - 1)
         IN  Append(prev, EulerUpdate(A, dt, prev[Len(prev)]))

\* a whole call of euler, from the state matrix to return t, x
EulerRun(m, c, k, x0, v0, n, dt) ==
    IF ~StateMatrix(m, c, k).ok
    THEN [status |-> StateMatrix(m, c, k).error]
    ELSE [status |-> "returned",
          x |-> EulerRows(StateMatrix(m, c, k).val, dt, <<Z(x0), Z(v0)>>, n)]

\* euler(m, c, k, x0, v0, n, dt): up to the loop
EulerCall ==
    /\ pc = "idle"
    /\ \E m \in Masses, c \in Dampings, k \in Stiffnesses,
          x0 \in X0s, v0 \in V0s, n \in 0..MaxN, dt \in Dts :
          /\ fn' = "euler"
          /\ args' = [m |-> m, c |-> c, k |-> k, x0 |-> x0, v0 |-> v0,
                      n |-> n, dt |-> dt]
          /\ IF ~StateMatrix(m, c, k).ok
             THEN \* -k / m raises before x is created
                  /\ pc' = "done"
                  /\ ret' = [status |-> StateMatrix(m, c, k).error]
                  /\ x' = <<>>
             ELSE /\ pc' = "euler_loop"
                  /\ ret' = NoRet
                  /\ x' = [Zeros(n) EXCEPT ![1] = <<Z(x0), Z(v0)>>]
          /\ i' = 0
          /\ loc' = <<>>

\* one pass of: for i in range(0, n): x[i + 1] = x[i] + dt * A@x[i]
EulerStep ==
    /\ pc = "euler_loop"
    /\ i < args.n
    /\ x' = [x EXCEPT ![i + 2] =
                EulerUpdate(StateMatrix(args.m, args.c, args.k).val, args.dt, x[i + 1])]
    /\ i' = i + 1
    /\ UNCHANGED <<fn, pc, args, loc, ret>>

\* return t, x
EulerReturn ==
    /\ pc = "euler_loop"
    /\ i = args.n
    /\ pc' = "done"
    /\ ret' = [status |-> "returned", x |-> x]
    /\ UNCHANGED <<fn, args, i, x, loc>>

\* rk4(m, c, k, x0, v0, n, dt): up to the loop
Rk4Call ==
    /\ pc = "idle"
    /\ \E m \in Masses, c \in Dampings, k \in Stiffnesses,
          x0 \in X0s, v0 \in V0s, n \in 0..MaxNRk, dt \in Dts :
          \* four stages per step: m * (1/dt) <= 2 keeps the exact rows
          \* within 32-bit numerators and denominators
          /\ m * dt[2] <= 2
          /\ fn' = "rk4"
          /\ args' = [m |-> m, c |-> c, k |-> k, x0 |-> x0, v0 |-> v0,
                      n |-> n, dt |-> dt]
          /\ x' = [Zeros(n) EXCEPT ![1] = <<Z(x0), Z(v0)>>]
          /\ IF ~StateMatrix(m, c, k).ok
             THEN \* x exists already when -k / m raises
                  /\ pc' = "done"
                  /\ ret' = [status |-> StateMatrix(m, c, k).error]
             ELSE /\ pc' = "rk4_loop"
                  /\ ret' = NoRet
          /\ i' = 0
          /\ loc' = <<>>

\* one pass of rk4's loop
Rk4Step ==
    /\ pc = "rk4_loop"
    /\ i < args.n
    /\ x' = [x EXCEPT ![i + 2] =
                Rk4Update(StateMatrix(args.m, args.c, args.k).val, args.dt, x[i + 1])]
    /\ i' = i + 1
    /\ UNCHANGED <<fn, pc, args, loc, ret>>

Rk4Return ==
    /\ pc = "rk4_loop"
    /\ i = args.n
    /\ pc' = "done"
    /\ ret' = [status |-> "returned", x |-> x]
    /\ UNCHANGED <<fn, args, i, x, loc>>

----------------------------------------------------------------------------
(* analytical.                                                             *)
(* A float that comes out of a square root is carried as its kind ("fin",  *)
(* "inf" or "nan"), its sign and its square.                               *)

AMasses == {-1, 0, 1, 2}
ADampings == {0, 1, 2, 4}
AStiffnesses == {-1, 0, 1, 2}

Sign(a) == IF a < 0 THEN -1 ELSE IF a = 0 THEN 0 ELSE 1

NaN == [kind |-> "nan", sgn |-> 0, sq |-> Z(0), zero |-> 0]

\* the sign bit of the float zero k / m: 0 / m is -0.0 for m < 0
ZeroSign(m, k) == IF k # 0 THEN 0 ELSE IF m < 0 THEN -1 ELSE 1

\* np.sqrt(k / m) for m # 0: nan (and a warning) below zero; the root of a
\* zero keeps its sign bit, sqrt(-0.0) = -0.0 (field zero)
NaturalFrequency(m, k) ==
    IF Q(k, m)[1] < 0 THEN NaN
    ELSE [kind |-> "fin", sgn |-> Sign(Q(k, m)[1]), sq |-> Q(k, m),
          zero |-> ZeroSign(m, k)]

\* c / (2 * w * m): a float division by a numpy value, which gives nan or
\* an infinity instead of raising when 2*w*m is zero; the infinity has the
\* sign of c times the sign bit of the zero 2*w*m
DampingRatio(m, c, w) ==
    IF w.kind = "nan" THEN NaN
    ELSE IF w.sgn = 0
         THEN IF c = 0 THEN NaN
              ELSE [kind |-> "inf", sgn |-> Sign(c) * w.zero * Sign(m),
                    sq |-> Z(0), zero |-> 0]
         ELSE [kind |-> "fin", sgn |-> Sign(c) * Sign(m),
               sq |-> RDiv(Z(c * c), RMul(Z(4 * m * m), w.sq)),
               zero |-> 0]

\* the first test with its bound included
ZetaLe1(zeta) ==
    \/ zeta.kind = "inf" /\ zeta.sgn < 0
    \/ zeta.kind = "fin" /\ (zeta.sgn <= 0 \/ ~RLt(Z(1), zeta.sq))

\* zeta < 1
ZetaLt1(zeta) ==
    \/ zeta.kind = "inf" /\ zeta.sgn < 0
    \/ zeta.kind = "fin" /\ (zeta.sgn <= 0 \/ RLt(zeta.sq, Z(1)))

\* zeta == 1
ZetaEq1(zeta) == zeta.kind = "fin" /\ zeta.sgn > 0 /\ zeta.sq = Z(1)

\* analytical(m, c, k, x0, v0, n, dt) down to the if statement
AnalyticalCall ==
    /\ pc = "idle"
    /\ \E m \in AMasses, c \in ADampings, k \in AStiffnesses,
          x0 \in X0s, v0 \in V0s :
          /\ fn' = "analytical"
          /\ args' = [m |-> m, c |-> c, k |-> k, x0 |-> x0, v0 |-> v0]
          /\ IF m = 0
             THEN \* k / m raises
                  /\ pc' = "done"
                  /\ loc' = <<>>
                  /\ ret' = [status |-> "ZeroDivisionError"]
             ELSE /\ pc' = "an_if"
                  /\ loc' = [w |-> NaturalFrequency(m, k),
                             zeta |-> DampingRatio(m, c, NaturalFrequency(m, k))]
                  /\ ret' = NoRet
    /\ UNCHANGED <<i, x>>

\* if zeta < 1: the underdamped formula; the values are numbers when
\* wd = w*sqrt(1 - zeta**2) is one
AnalyticalUnder ==
    /\ pc = "an_if"
    /\ ZetaLt1(loc.zeta)
    /\ pc' = "done"
    /\ ret' = [status |-> "returned", branch |-> "under",
               finite |-> loc.zeta.kind = "fin" /\ RLt(loc.zeta.sq, Z(1))]
    /\ UNCHANGED <<fn, args, i, x, loc>>

\* elif zeta == 1: x = (a1 + a2*t)*exp(-w*t) with a1 = x0, a2 = v0 + w*x0;
\* here w = c/(2m)
AnalyticalCritical ==
    /\ pc = "an_if"
    /\ ~ZetaLt1(loc.zeta)
    /\ ZetaEq1(loc.zeta)
    /\ pc' = "done"
    /\ ret' = [status |-> "returned", branch |-> "crit", finite |-> TRUE,
               a1 |-> Z(args.x0),
               a2 |-> RAdd(Z(args.v0), RMul(Q(args.c, 2 * args.m), Z(args.x0)))]
    /\ UNCHANGED <<fn, args, i, x, loc>>

\* else: the overdamped formula, also taken by nan and by +inf
AnalyticalOver ==
    /\ pc = "an_if"
    /\ ~ZetaLt1(loc.zeta)
    /\ ~ZetaEq1(loc.zeta)
    /\ pc' = "done"
    /\ ret' = [status |-> "returned", branch |-> "over",
               finite |-> loc.zeta.kind = "fin"]
    /\ UNCHANGED <<fn, args, i, x, loc>>

----------------------------------------------------------------------------
(* forced_analytical.                                                      *)

FMasses == {0, 1, 4}
FStiffnesses == {1, 4}
Drives == {1, 2}
Forces == {0, 1}

\* f0 / (w**2 - wdr**2) with w**2 = k/m: the divisor is a numpy float, so
\* a zero divisor gives inf or nan (and a warning), never an exception
ForcedAmplitude(m, k, wdr, F0) ==
    LET f0 == Q(F0, m)
        den == RSub(Q(k, m), Z(wdr * wdr))
    IN  IF den[1] = 0
        THEN IF f0[1] = 0 THEN NaN
             ELSE [kind |-> "inf", sgn |-> Sign(f0[1]), sq |-> Z(0)]
        ELSE [kind |-> "fin", val |-> RDiv(f0, den)]

\* forced_analytical(m, k, x0, v0, wdr, F0, tf)
ForcedCall ==
    /\ pc = "idle"
    /\ \E m \in FMasses, k \in FStiffnesses, x0 \in X0s, v0 \in V0s,
          wdr \in Drives, F0 \in Forces :
          /\ fn' = "forced_analytical"
          /\ args' = [m |-> m, k |-> k, x0 |-> x0, v0 |-> v0,
                      wdr |-> wdr, F0 |-> F0]
          /\ IF m = 0
             THEN \* F0 / m raises
                  ret' = [status |-> "ZeroDivisionError"]
             ELSE LET q == ForcedAmplitude(m, k, wdr, F0)
                  IN  ret' = [status |-> "returned",
                              finite |-> q.kind = "fin",
                              amp |-> q]
    /\ pc' = "done"
    /\ UNCHANGED <<i, x, loc>>

----------------------------------------------------------------------------
(* euler_beam_modes.                                                       *)
(* Eigenvalues Bnl are in thousandths, natural frequencies w in            *)
(* millionths of a rad/s.  A mode shape column is carried by its formula   *)
(* (form, sig, B) and, where the sampled values have rational squares (the *)
(* constant, the straight line, and the sine on a grid of 2, 3, 4 or 6     *)
(* intervals), by its samples, each a sign and a square.                   *)

\* sp.pi, in millionths
PiMicro == 3141593

\* beamparams = (E, I, rho, A, L); E*I/(rho*A*L**4) is a perfect square
Beams == { <<1, 1, 1, 1, 1>>, <<4, 1, 1, 1, 1>>, <<0, 1, 1, 1, 1>>,
           <<8, 1, 2, 1, 1>>, <<16, 1, 1, 1, 2>> }

BcTypes == 0..7

\* what a cell of uninitialised memory (sp.empty) may hold
Junk == {0, 3, 4}

\* the contents of the memory sp.empty hands out, cell by cell; an array
\* longer than MemCells finds them repeated
Memories == [1..MemCells -> Junk]

\* element idx (from 0, in storage order) of an array left as allocated
Cell(mem, idx) == mem[(idx % MemCells) + 1]

\* a memory whose contents do not matter: every element is overwritten
Zeroed == [c \in 1..MemCells |-> 0]

\* the requests n: a count, or an explicit list of mode indices
Counts == {[int |-> TRUE, count |-> c, list |-> <<>>] : c \in 0..MaxModes}

Lists ==
    {[int |-> FALSE, count |-> 0, list |-> <<a>>] : a \in 1..MaxIndex}
      \cup {[int |-> FALSE, count |-> 0, list |-> <<a, b>>] : a, b \in 1..MaxIndex}
      \cup {[int |-> FALSE, count |-> 0, list |-> <<1, 2, 3>>],
            [int |-> FALSE, count |-> 0, list |-> <<1, 1, 1, 1, 1, 1>>],
            [int |-> FALSE, count |-> 0, list |-> <<2, 2, 2, 2, 2, 2, 2, 2>>]}

ISqrt(a) == CHOOSE r \in 0..a : r * r = a

\* sp.sqrt(E * I / (rho * A * L ** 4)), a rational
BeamFactor(beam) ==
    LET r == Q(beam[1] * beam[2], beam[3] * beam[4] * beam[5] * beam[5]
                                    * beam[5] * beam[5])
    IN  <<ISqrt(r[1]), ISqrt(r[2])>>

\* the tables Bnllow of the boundary conditions 1 to 5
Bnllow(bctype) ==
    CASE bctype = 1 -> <<0, 0, 4730, 7853, 10996, 14137, 17279>>
      [] bctype = 2 -> <<1880, 4690, 7850, 10990, 14140>>
      [] bctype = 3 -> <<3930, 7070, 10210, 13350, 16490>>
      [] bctype = 4 -> <<2370, 5500, 8640, 11780, 14920>>
      [] bctype = 5 -> <<4730, 7850, 11000, 14140, 17280>>

\* the guard of the free-free table used for every table
TableTopSeven(bctype) == 7

\* the highest mode index read from the table
TableTop(bctype) == IF bctype = 1 THEN 7 ELSE 4

\* the closed form with the free-free one a half wave short
AsymptoticShort(bctype, ni) ==
    CASE bctype = 1 -> ((2 * ni - 5) * PiMicro) \div 2000
      [] bctype = 2 -> ((2 * ni - 1) * PiMicro) \div 2000
      [] bctype = 3 -> ((4 * ni + 1) * PiMicro) \div 4000
      [] bctype = 4 -> ((4 * ni - 1) * PiMicro) \div 4000
      [] bctype = 5 -> ((2 * ni + 1) * PiMicro) \div 2000

\* the closed form used above TableTop
Asymptotic(bctype, ni) ==
    CASE bctype = 1 -> ((2 * ni - 3) * PiMicro) \div 2000
      [] bctype = 2 -> ((2 * ni - 1) * PiMicro) \div 2000
      [] bctype = 3 -> ((4 * ni + 1) * PiMicro) \div 4000
      [] bctype = 4 -> ((4 * ni - 1) * PiMicro) \div 4000
      [] bctype = 5 -> ((2 * ni + 1) * PiMicro) \div 2000

\* the table read at the mode index, as the original indexes it
EigenvalueByIndex(bctype, nn, pos) ==
    IF bctype = 6 THEN [ok |-> TRUE, val |-> (nn[pos] * PiMicro) \div 1000]
    ELSE IF nn[pos] > TableTop(bctype)
         THEN [ok |-> TRUE, val |-> Asymptotic(bctype, nn[pos])]
         ELSE [ok |-> TRUE, val |-> Bnllow(bctype)[nn[pos]]]

\* Bnl[i] for the request at position pos (from 1; the code's i is pos - 1):
\* the table is read at the POSITION, Bnllow[i], not at the mode index
Eigenvalue(bctype, nn, pos) ==
    IF bctype = 6 THEN [ok |-> TRUE, val |-> (nn[pos] * PiMicro) \div 1000]
    ELSE IF nn[pos] > TableTop(bctype)
         THEN [ok |-> TRUE, val |-> Asymptotic(bctype, nn[pos])]
         ELSE IF pos > Len(Bnllow(bctype))
              THEN [ok |-> FALSE, error |-> "IndexError"]
              ELSE [ok |-> TRUE, val |-> Bnllow(bctype)[pos]]

\* (Bnl[i] ** 2) * sp.sqrt(E * I / (rho * A * L ** 4))
Frequency(B, beam) ==
    LET s == BeamFactor(beam)
    IN  IF s[1] = 0 THEN 0 ELSE (B * B * s[1]) \div s[2]

RigidBody(bctype, ni) == bctype = 1 /\ ni \in {1, 2}

\* w[i]
ModeFrequency(bctype, ni, B, beam) ==
    IF RigidBody(bctype, ni) THEN 0 ELSE Frequency(B, beam)

\* the formula that fills U[:, i]
ModeForm(bctype, ni, B) ==
    CASE bctype = 1 /\ ni = 1 -> [form |-> "1", sig |-> "none", B |-> 0, k |-> ni]
      [] bctype = 1 /\ ni = 2 -> [form |-> "len-0.5", sig |-> "none", B |-> 0, k |-> ni]
      [] bctype = 1 /\ ni \notin {1, 2} ->
            [form |-> "cosh+cos-sig*(sinh+sin)",
             sig |-> "(cosh-cos)/(sinh-sin)", B |-> B, k |-> ni]
      [] bctype = 2 ->
            [form |-> "cosh-cos-sig*(sinh-sin)",
             sig |-> "(sinh-sin)/(cosh-cos)", B |-> B, k |-> ni]
      [] bctype \in {3, 5} ->
            [form |-> "cosh-cos-sig*(sinh-sin)",
             sig |-> "(cosh-cos)/(sinh-sin)", B |-> B, k |-> ni]
      [] bctype = 4 ->
            [form |-> "cosh-cos-sig*(sinh-sin)",
             sig |-> "(sinh+sin)/(cosh-cos)", B |-> B, k |-> ni]
      [] bctype = 6 -> [form |-> "sin", sig |-> "none", B |-> B, k |-> ni]

\* sp.sin at the float m*pi, in units of sp.sin(sp.pi) = 1.2246e-16: the
\* float m*pi falls short of the real m*pi by m times what the float pi
\* falls short of pi, so the sine is not 0 but (-1)^(m+1) * m units
SinResidue(m) == IF m % 2 = 1 THEN m ELSE -m

\* sin(pi * p / q)**2 and the sign of sin(pi * p / q), for q in {2, 3, 4};
\* where the sine of the real number is 0, res is the value the float has
SinSample(p, q) ==
    LET d == Q(p % q, q)[2]
        sq == CASE d = 1 -> Z(0)
                [] d = 2 -> Z(1)
                [] d = 3 -> Q(3, 4)
                [] d = 4 -> Q(1, 2)
    IN  [sgn |-> IF d = 1 THEN 0 ELSE IF p % (2 * q) < q THEN 1 ELSE -1,
         sq |-> sq,
         res |-> IF d = 1 THEN SinResidue(p \div q) ELSE 0]

\* the sample grids on which every modelled sample has a rational square
Sampled(npoints) == (npoints - 1) \in {2, 3, 4}

\* U[:, i] before normalisation, at len = sp.linspace(0, 1, npoints)
RawSamples(f, npoints) ==
    IF ~Sampled(npoints) THEN <<>>
    ELSE CASE f.form = "1" ->
                [j \in 1..npoints |-> [sgn |-> 1, sq |-> Z(1), res |-> 0]]
           [] f.form = "len-0.5" ->
                [j \in 1..npoints |->
                    LET d == 2 * (j - 1) - (npoints - 1)
                    IN  [sgn |-> Sign(d),
                         sq |-> Q(d * d, 4 * (npoints - 1) * (npoints - 1)),
                         res |-> 0]]
           [] f.form = "sin" ->
                [j \in 1..npoints |-> SinSample(f.k * (j - 1), npoints - 1)]
           [] OTHER -> <<>>

RECURSIVE SumSq(_, _)
\* sp.dot(U[:, i], U[:, i]) over the first j samples
SumSq(col, j) == IF j = 0 THEN Z(0) ELSE RAdd(SumSq(col, j - 1), col[j].sq)

\* a normalisation by the integral of the samples, with the sample spacing
NormalizeByIntegral(col, beam) ==
    LET dot == SumSq(col, Len(col))
        den == RMul(dot, Q(beam[3] * beam[4] * beam[5], Len(col) - 1))
    IN  IF col = <<>> THEN [kind |-> "formula", val |-> <<>>]
        ELSE IF den[1] = 0 THEN [kind |-> "nan", val |-> <<>>]
        ELSE [kind |-> "fin",
              val |-> [j \in 1..Len(col) |->
                         [sgn |-> col[j].sgn, sq |-> RDiv(col[j].sq, den)]]]

\* the column in units of sp.sin(sp.pi), when it holds nothing larger
Residues(col) ==
    [j \in 1..Len(col) |->
        [sgn |-> Sign(col[j].res), sq |-> Z(col[j].res * col[j].res)]]

\* U[:, i] / sp.sqrt(sp.dot(U[:, i], U[:, i]) * rho * A * L); a column of
\* sines of float multiples of pi is divided by its own tiny norm, a column
\* of zeros gives 0/0
Normalize(col, beam) ==
    LET tiny == col # <<>> /\ SumSq(col, Len(col))[1] = 0
        c == IF tiny THEN Residues(col) ELSE col
        dot == SumSq(c, Len(c))
        den == RMul(dot, Z(beam[3] * beam[4] * beam[5]))
    IN  IF col = <<>> THEN [kind |-> "formula", val |-> <<>>]
        ELSE IF den[1] = 0 THEN [kind |-> "nan", val |-> <<>>]
        ELSE [kind |-> "fin",
              val |-> [j \in 1..Len(c) |->
                         [sgn |-> c[j].sgn, sq |-> RDiv(c[j].sq, den)]]]

\* n = sp.arange(n) + 1 for an int n: the mode indices 1..n
Requested(n) == [j \in 1..n.count |-> j]

\* column p (from 1) of U = sp.empty([npoints, ln]) that no branch has
\* filled: U[r, p - 1] is element r*ln + p - 1 of the array
Uninit(junk, npoints, ln, p) ==
    IF Sampled(npoints)
    THEN [j \in 1..npoints |->
            LET v == Cell(junk, (j - 1) * ln + p - 1)
            IN  [sgn |-> Sign(v), sq |-> Z(v * v), res |-> 0]]
    ELSE <<>>

\* euler_beam_modes(n, bctype, beamparams, npoints); junk is what the
\* memory of each sp.empty array holds.  For an n that is not an int the
\* else branch calls len(n), and len is a local of the function (assigned
\* at line 333) that has no value yet.
EulerBeamModes(n, bctype, beam, npoints, junk) ==
    LET nn == Requested(n)
        ln == Len(nn)
        known == bctype \in 1..6
        eig == [p \in 1..ln |->
                    IF known THEN Eigenvalue(bctype, nn, p)
                    ELSE [ok |-> TRUE, val |-> 1000 * Cell(junk, p - 1)]]
    IN  IF ~n.int
        THEN [status |-> "UnboundLocalError"]
        ELSE IF \E p \in 1..ln : ~eig[p].ok
        THEN [status |-> "IndexError"]
        ELSE [status |-> "returned",
              Bnl |-> [p \in 1..ln |-> eig[p].val],
              w |-> [p \in 1..ln |->
                        IF known
                        THEN ModeFrequency(bctype, nn[p], eig[p].val, beam)
                        ELSE 1000000 * Cell(junk, p - 1)],
              x |-> [from |-> 0, to |-> beam[5], num |-> npoints],
              form |-> [p \in 1..ln |->
                        IF known THEN ModeForm(bctype, nn[p], eig[p].val)
                        ELSE [form |-> "uninit", sig |-> "none",
                              B |-> 1000 * Cell(junk, p - 1), k |-> nn[p]]],
              U |-> [p \in 1..ln |->
                        Normalize(IF known
                                  THEN RawSamples(ModeForm(bctype, nn[p], eig[p].val),
                                                  npoints)
                                  ELSE Uninit(junk, npoints, ln, p),
                                  beam)]]

\* a call of euler_beam_modes by the user
ModesCall ==
    /\ pc = "idle"
    /\ \E n \in Counts \cup Lists, bctype \in BcTypes, beam \in Beams,
          npoints \in 3..MaxNPoints, junk \in Memories :
          /\ fn' = "euler_beam_modes"
          /\ args' = [n |-> n, bctype |-> bctype, beamparams |-> beam,
                      npoints |-> npoints]
          /\ ret' = EulerBeamModes(n, bctype, beam, npoints, junk)
    /\ pc' = "done"
    /\ UNCHANGED <<i, x, loc>>

----------------------------------------------------------------------------
(* euler_beam_frf.                                                         *)

\* the number of columns of a and of entries of f
BufCols == 100
\* the sample count of the mode shapes it asks for
FrfPoints == 5000

\* the number of frequencies of the sweep
SweepPoints == 2001

FPositions == {-1, 0, 1, 3}
Fmins == {0, 1}
Fmaxes == {0, 1, 10, 50}
FZetas == {Z(0), Q(1, 50)}
FrfBcTypes == 1..6

\* the stop level without the margin of 1.3
ThresholdNoMargin(fmax) == fmax * 2 * PiMicro

\* 1.3 * (fmax * 2 * sp.pi), in millionths of a rad/s
Threshold(fmax) == 13 * ((fmax * 2 * PiMicro) \div 10)

\* wn[-1] < 1.3 * (fmax * 2 * sp.pi)
FrfContinue(wn, fmax) == wn[Len(wn)] < Threshold(fmax)

\* a column of a that has not been written
Unset == [set |-> FALSE]

\* the position test with the free end of the beam left out
OffBeamAtEnd(xin, xout, L) == xin < 0 \/ xout < 0 \/ xin >= L \/ xout >= L

\* min([xin, xout]) < 0 or max([xin, xout]) > L
OffBeam(xin, xout, L) == xin < 0 \/ xout < 0 \/ xin > L \/ xout > L

\* an index test that lets one entry too many through
InsideFOffByOne(k) == k <= BufCols

\* f[k] is an entry of f = sp.empty(100)
InsideF(k) == k < BufCols

\* 0 is one of the frequencies sp.linspace(fmin, fmax, 2001)
SweepHasZero(fmin, fmax) ==
    \/ fmin = 0
    \/ fmax = 0
    \/ /\ fmin * fmax < 0
       /\ ((SweepPoints - 1) * fmin) % (fmin - fmax) = 0

\* the divisor wn**2 - w**2 + 2*zeta*wn*w*1j is zero somewhere on the sweep:
\* with wn = 0 it is -w**2, zero at w = 0.  (For wn > 0 it is zero only if
\* zeta = 0 and wn is a sweep frequency, which no rational fmin, fmax and
\* eigenvalue of the tables gives, 2*pi being irrational.)
ZeroDivisor(wn, fmin, fmax) == wn = 0 /\ SweepHasZero(fmin, fmax)

\* the whole buffer instead of its written part
SliceAll(a, k) == a

\* a[:, 0:i]
Slice(a, k) == SubSeq(a, 1, k)

\* euler_beam_frf(xin, xout, fmin, fmax, zeta, beamparams, bctype) down to
\* the while loop
FrfCall ==
    /\ pc = "idle"
    /\ \E xin \in FPositions, xout \in FPositions, fmin \in Fmins,
          fmax \in Fmaxes, zeta \in FZetas, beam \in Beams,
          bctype \in FrfBcTypes :
          /\ fn' = "euler_beam_frf"
          /\ args' = [xin |-> xin, xout |-> xout, fmin |-> fmin, fmax |-> fmax,
                      zeta |-> zeta, beamparams |-> beam, bctype |-> bctype]
          /\ IF OffBeam(xin, xout, beam[5])
             THEN \* disp_ and char are not defined anywhere
                  /\ pc' = "done"
                  /\ loc' = <<>>
                  /\ ret' = [status |-> "NameError"]
             ELSE /\ pc' = "frf_while"
                  /\ loc' = [wn |-> <<0, 0>>,
                             a |-> [c \in 1..BufCols |-> Unset]]
                  /\ ret' = NoRet
    /\ i' = 0
    /\ UNCHANGED x

\* one pass of the while loop
FrfIterate ==
    /\ pc = "frf_while"
    /\ FrfContinue(loc.wn, args.fmax)
    /\ LET k == i + 1
           m == EulerBeamModes([int |-> TRUE, count |-> k, list |-> <<>>],
                               args.bctype, args.beamparams, FrfPoints, Zeroed)
           col == [set |-> TRUE,
                   mode |-> k,
                   rhoA |-> args.beamparams[3] * args.beamparams[4],
                   Uin |-> [shape |-> m.form[k], at |-> args.xin],
                   Uout |-> [shape |-> m.form[k], at |-> args.xout],
                   wn |-> m.w[Len(m.w)],
                   zeta |-> args.zeta,
                   finite |-> ~ZeroDivisor(m.w[Len(m.w)], args.fmin, args.fmax)]
       IN  /\ i' = k
           /\ loc' = [wn |-> m.w, a |-> [loc.a EXCEPT ![k] = col]]
           /\ IF ~InsideF(k)
              THEN \* f[i] is outside f = sp.empty(100)
                   /\ pc' = "done"
                   /\ ret' = [status |-> "IndexError"]
              ELSE UNCHANGED <<pc, ret>>
    /\ UNCHANGED <<fn, args, x>>

\* plt.plot(w / 2 / sp.pi, 20 * sp.log10(sp.absolute(a)), '-') draws one
\* line per column of a[:, 0:i]; with no column (i = 0, the loop never ran)
\* the call of plot divides by the number of columns and raises
PlotRaises(cols) == cols = 0

\* after the loop: a = a[:, 0:i], the plots, return fout, H
FrfReturn ==
    /\ pc = "frf_while"
    /\ ~FrfContinue(loc.wn, args.fmax)
    /\ pc' = "done"
    /\ ret' = IF PlotRaises(i)
              THEN [status |-> "ZeroDivisionError"]
              ELSE [status |-> "returned",
                    fout |-> [from |-> args.fmin, to |-> args.fmax,
                              num |-> 2001],
                    H |-> Slice(loc.a, i)]
    /\ UNCHANGED <<fn, args, i, x, loc>>

----------------------------------------------------------------------------
(* step_response.                                                          *)

SMasses == {0, 1, 2}
SDampings == {0, 1, 2, 4}
SStiffnesses == {1, 2}
SForces == {0, 1}

\* the first test with zero let in
ZetaFrom0To1(zeta) ==
    zeta.kind = "fin" /\ zeta.sgn >= 0 /\ (zeta.sgn = 0 \/ RLt(zeta.sq, Z(1)))

\* 0 < zeta < 1
ZetaIn0To1(zeta) ==
    zeta.kind = "fin" /\ zeta.sgn > 0 /\ RLt(zeta.sq, Z(1))

\* zeta > 1
ZetaGt1(zeta) ==
    \/ zeta.kind = "inf" /\ zeta.sgn > 0
    \/ zeta.kind = "fin" /\ zeta.sgn > 0 /\ RLt(Z(1), zeta.sq)

\* step_response(m, c, k, Fo, max_time) down to the if statement
StepCall ==
    /\ pc = "idle"
    /\ \E m \in SMasses, c \in SDampings, k \in SStiffnesses, Fo \in SForces :
          /\ fn' = "step_response"
          /\ args' = [m |-> m, c |-> c, k |-> k, Fo |-> Fo]
          /\ IF m = 0
             THEN \* k / m raises
                  /\ pc' = "done"
                  /\ loc' = <<>>
                  /\ ret' = [status |-> "ZeroDivisionError"]
             ELSE /\ pc' = "st_if"
                  /\ loc' = [wn |-> NaturalFrequency(m, k),
                             zeta |-> DampingRatio(m, c, NaturalFrequency(m, k)),
                             fo |-> Q(Fo, m)]
                  /\ ret' = NoRet
    /\ UNCHANGED <<i, x>>

\* the locals once a branch has computed x and the figure is built: x is
\* carried as its branch and its static value fo/wn**2; no callback has run
Shown(l, branch) ==
    [wn |-> l.wn, zeta |-> l.zeta, fo |-> l.fo,
     branch |-> branch, static |-> RDiv(l.fo, l.wn.sq),
     callbacks |-> 0, last |-> NoRet]

\* if 0 < zeta < 1: x = fo/wn**2 * (1 - wn/wd*exp(-zeta*wn*t)*cos(wd*t - phi));
\* then the figure, up to the call of plt.show()
StepUnder ==
    /\ pc = "st_if"
    /\ ZetaIn0To1(loc.zeta)
    /\ pc' = "st_show"
    /\ loc' = Shown(loc, "under")
    /\ UNCHANGED <<fn, args, i, x, ret>>

\* elif zeta == 1: x = fo/wn**2 + A1*exp(lam*t) + A2*t*exp(lam*t)
StepCritical ==
    /\ pc = "st_if"
    /\ ~ZetaIn0To1(loc.zeta)
    /\ ZetaEq1(loc.zeta)
    /\ pc' = "st_show"
    /\ loc' = Shown(loc, "crit")
    /\ UNCHANGED <<fn, args, i, x, ret>>

\* elif zeta > 1: x = fo/wn**2 + A1*exp(lam1*t) + A2*exp(lam2*t)
StepOver ==
    /\ pc = "st_if"
    /\ ~ZetaIn0To1(loc.zeta)
    /\ ~ZetaEq1(loc.zeta)
    /\ ZetaGt1(loc.zeta)
    /\ pc' = "st_show"
    /\ loc' = Shown(loc, "over")
    /\ UNCHANGED <<fn, args, i, x, ret>>

\* the calls of euler a callback makes: undamped, unit stiffness and step
CallbackCalls ==
    {[m |-> m, c |-> 0, k |-> 1, x0 |-> x0, v0 |-> v0, n |-> n, dt |-> Z(1)] :
        m \in Masses, x0 \in X0s, v0 \in V0s, n \in 0..1}

\* plt.show() is waiting for the figure to be closed and its event loop
\* runs a callback; the callback calls a solver, here euler, which runs to
\* its end inside the loop.  x of the waiting call is not touched.
StepShowCallback ==
    /\ pc = "st_show"
    /\ loc.callbacks < MaxCallbacks
    /\ \E call \in CallbackCalls :
          loc' = [loc EXCEPT
                    !.callbacks = @ + 1,
                    !.last = [fn |-> "euler", args |-> call,
                              ret |-> EulerRun(call.m, call.c, call.k, call.x0,
                                               call.v0, call.n, call.dt)]]
    /\ UNCHANGED <<fn, pc, args, i, x, ret>>

\* plt.show() comes back (at once, or when the figure is closed): return t, x
StepReturn ==
    /\ pc = "st_show"
    /\ pc' = "done"
    /\ ret' = [status |-> "returned", branch |-> loc.branch,
               static |-> loc.static]
    /\ UNCHANGED <<fn, args, i, x, loc>>

\* else: raise ValueError('Zeta should be greater than zero')
StepRaise ==
    /\ pc = "st_if"
    /\ ~ZetaIn0To1(loc.zeta)
    /\ ~ZetaEq1(loc.zeta)
    /\ ~ZetaGt1(loc.zeta)
    /\ pc' = "done"
    /\ ret' = [status |-> "ValueError"]
    /\ UNCHANGED <<fn, args, i, x, loc>>

----------------------------------------------------------------------------
(* The caller.                                                             *)

\* the call is over; the caller may make the next one
Finish ==
    /\ pc = "done"
    /\ pc' = "idle"
    /\ fn' = "none"
    /\ args' = <<>>
    /\ i' = 0
    /\ x' = <<>>
    /\ loc' = <<>>
    /\ ret' = NoRet

Init ==
    /\ fn = "none"
    /\ pc = "idle"
    /\ args = <<>>
    /\ i = 0
    /\ x = <<>>
    /\ loc = <<>>
    /\ ret = NoRet

Next ==
    \/ EulerCall \/ EulerStep \/ EulerReturn
    \/ Rk4Call \/ Rk4Step \/ Rk4Return
    \/ AnalyticalCall \/ AnalyticalUnder \/ AnalyticalCritical \/ AnalyticalOver
    \/ ForcedCall
    \/ ModesCall
    \/ FrfCall \/ FrfIterate \/ FrfReturn
    \/ StepCall \/ StepUnder \/ StepCritical \/ StepOver \/ StepRaise
    \/ StepShowCallback \/ StepReturn
    \/ Finish

Spec == Init /\ [][Next]_vars

----------------------------------------------------------------------------
(* Properties.                                                             *)

\* the rows of an integrator's array that the loop has not reached yet
Unwritten(j) == j > i + 1 => x[j] = <<Z(0), Z(0)>>

\* row j + 1 is the explicit Euler image of row j: displacement and
\* velocity written out, with the matrix entries -k/m and -c/m
EulerRow(rows, j) ==
    LET pos == rows[j][1]
        vel == rows[j][2]
        acc == RSub(RMul(Q(-args.k, args.m), pos), RMul(Q(args.c, args.m), vel))
    IN  /\ rows[j + 1][1] = RAdd(pos, RMul(args.dt, vel))
        /\ rows[j + 1][2] = RAdd(vel, RMul(args.dt, acc))

\* C1: euler with m # 0 returns n + 1 rows, row 0 is (x0, v0) and every
\* later row is x[i] + dt*A*x[i] of the row before it; while the loop runs,
\* the rows up to i obey the recurrence and the rows after i are still the
\* zeros they were created with, so each row is written once, from the
\* preceding row only.
C1_EulerRecurrence ==
    fn = "euler" /\ args.m # 0 =>
        /\ pc \in {"euler_loop", "done"}
        /\ Len(x) = args.n + 1
        /\ x[1] = <<Z(args.x0), Z(args.v0)>>
        /\ \A j \in 1..i : EulerRow(x, j)
        /\ \A j \in 1..Len(x) : Unwritten(j)
        /\ pc = "done" =>
              /\ ret.status = "returned"
              /\ i = args.n
              /\ ret.x = x

C1_Witness ==
    /\ fn = "euler" /\ pc = "done" /\ ret.status = "returned"
    /\ args.n = MaxN /\ args.m = 2 /\ args.c = 1 /\ args.x0 = 1
    /\ ret.x[MaxN + 1] # ret.x[MaxN]

\* f(x) = A*x of the claim, componentwise
Deriv(v) ==
    << v[2],
       RSub(RMul(Q(-args.k, args.m), v[1]), RMul(Q(args.c, args.m), v[2])) >>

Half(v) == <<RMul(Q(1, 2), v[1]), RMul(Q(1, 2), v[2])>>

\* row j + 1 is the classical Runge-Kutta image of row j
Rk4Row(rows, j) ==
    LET dt == args.dt
        k1 == VScale(dt, Deriv(rows[j]))
        k2 == VScale(dt, Deriv(VAdd(rows[j], Half(k1))))
        k3 == VScale(dt, Deriv(VAdd(rows[j], Half(k2))))
        k4 == VScale(dt, Deriv(VAdd(rows[j], k3)))
        sum == VAdd(VAdd(k1, VAdd(k2, k2)), VAdd(VAdd(k3, k3), k4))
    IN  rows[j + 1] = VAdd(rows[j], VScale(Q(1, 6), sum))

\* C2: rk4 returns n + 1 rows, row 0 is (x0, v0) and every later row is
\* x[i] + (k1 + 2*k2 + 2*k3 + k4)/6 with the four stages of the claim.
C2_Rk4Recurrence ==
    fn = "rk4" /\ pc = "done" /\ args.m # 0 =>
        /\ ret.status = "returned"
        /\ Len(ret.x) = args.n + 1
        /\ ret.x[1] = <<Z(args.x0), Z(args.v0)>>
        /\ \A j \in 1..args.n : Rk4Row(ret.x, j)

C2_Witness ==
    /\ fn = "rk4" /\ pc = "done" /\ ret.status = "returned"
    /\ args.n = MaxNRk /\ args.c = 1 /\ args.x0 = 1 /\ args.dt = Q(1, 2)
    /\ ret.x[MaxNRk + 1] # ret.x[MaxNRk]

\* C6: with m = 0 euler and rk4 end in ZeroDivisionError: the loop is never
\* entered, no row is computed and nothing is returned.
C6_ZeroMassRejected ==
    fn \in {"euler", "rk4"} /\ args.m = 0 =>
        /\ pc = "done"
        /\ i = 0
        /\ ret = [status |-> "ZeroDivisionError"]

C6_Witness ==
    /\ fn = "rk4" /\ args.m = 0 /\ args.n > 0 /\ pc = "done"
    /\ ret.status = "ZeroDivisionError"

\* the regime of valid parameters, by the discriminant c^2 - 4km
Regime(m, c, k) ==
    IF c * c < 4 * k * m THEN "under"
    ELSE IF c * c = 4 * k * m THEN "crit" ELSE "over"

ValidOscillator == args.m > 0 /\ args.c >= 0 /\ args.k > 0

\* C4: for m > 0, c >= 0, k > 0 analytical returns from the branch of the
\* regime and from no other: underdamped iff zeta < 1, critical iff
\* zeta = 1 (with a1 = x0 and a2 = v0 + w*x0), overdamped iff zeta > 1.
C4_RegimeBranch ==
    fn = "analytical" /\ ValidOscillator =>
        /\ pc \in {"an_if", "done"}
        /\ pc = "an_if" =>
              /\ ZetaLt1(loc.zeta) <=> Regime(args.m, args.c, args.k) = "under"
              /\ ZetaEq1(loc.zeta) <=> Regime(args.m, args.c, args.k) = "crit"
        /\ pc = "done" =>
              /\ ret.status = "returned"
              /\ ret.finite
              /\ ret.branch = Regime(args.m, args.c, args.k)
              /\ ret.branch = "crit" =>
                    /\ ret.a1 = Z(args.x0)
                    /\ RMul(Z(2 * args.m), RSub(ret.a2, Z(args.v0)))
                          = Z(args.c * args.x0)

C4_Witness ==
    /\ fn = "analytical" /\ pc = "done" /\ ValidOscillator
    /\ args.m = 2 /\ args.c = 4 /\ args.k = 2 /\ args.x0 = 1
    /\ ret.branch = "crit"

\* C5: analytical fails, returning nothing, whenever m <= 0 or k <= 0.
C5_InvalidOscillatorFails ==
    fn = "analytical" /\ pc = "done" /\ (args.m <= 0 \/ args.k <= 0) =>
        ret.status # "returned"

\* C7: at resonance, sqrt(k/m) = wdr, forced_analytical fails instead of
\* returning values divided by w^2 - wdr^2 = 0.
C7_ResonanceReported ==
    fn = "forced_analytical" /\ pc = "done" /\ args.m # 0
      /\ args.k = args.m * args.wdr * args.wdr =>
        ret.status # "returned"

\* what a scalar-count request returns for mode index k: its last column
ModeAlone(k) ==
    LET r == EulerBeamModes([int |-> TRUE, count |-> k, list |-> <<>>],
                            args.bctype, args.beamparams, args.npoints, Zeroed)
    IN  [Bnl |-> r.Bnl[k], w |-> r.w[k], form |-> r.form[k], U |-> r.U[k]]

\* C3: for an explicit list of mode indices and any boundary condition,
\* the result at position p is the eigenvalue, frequency and shape of mode
\* n[p] itself, the same as a scalar-count request gives for that index.
C3_ListRequestByIndex ==
    fn = "euler_beam_modes" /\ pc = "done" /\ ~args.n.int
      /\ args.bctype \in 1..6 =>
        /\ ret.status = "returned"
        /\ \A p \in 1..Len(args.n.list) :
              LET one == ModeAlone(args.n.list[p])
              IN  /\ ret.Bnl[p] = one.Bnl
                  /\ ret.w[p] = one.w
                  /\ ret.form[p] = one.form
                  /\ ret.U[p] = one.U

\* C8: a boundary-condition tag outside 1..6 ends euler_beam_modes in an
\* error; no frequencies and mode shapes are returned for it.
C8_UnknownTagFails ==
    fn = "euler_beam_modes" /\ pc = "done" /\ args.bctype \notin 1..6 =>
        ret.status # "returned"

\* rho*A * sum_j U(x_j)^2 * dx with dx = L/(npoints - 1)
Quadrature(col, beam, npoints) ==
    RMul(SumSq(col, Len(col)),
         Q(beam[3] * beam[4] * beam[5], npoints - 1))

\* C9: every returned mode shape is mass-normalised under the discrete
\* quadrature: rho*A * sum_j U(x_j)^2 * dx = 1 with dx = L/(npoints - 1).
C9_MassNormalized ==
    fn = "euler_beam_modes" /\ pc = "done" /\ args.bctype \in 1..6
      /\ ret.status = "returned" =>
        \A p \in 1..Len(ret.U) :
            ret.U[p].kind = "fin" =>
                Quadrature(ret.U[p].val, args.beamparams, args.npoints) = Z(1)

\* the natural frequency of mode k of the beam of the call
NaturalFrequencyOf(k) ==
    ModeAlone(k).w

\* the coverage level 1.3 * 2*pi*fmax of the call
Coverage == 13 * ((args.fmax * 2 * PiMicro) \div 10)

FrfReturned ==
    fn = "euler_beam_frf" /\ pc = "done" /\ ret.status = "returned"

\* column k of the result is the contribution of mode k
InOrder ==
    \A k \in 1..Len(ret.H) :
        /\ ret.H[k].set
        /\ ret.H[k].mode = k
        /\ ret.H[k].wn = ModeFrequency(args.bctype, k,
                             Eigenvalue(args.bctype, [j \in 1..k |-> j], k).val,
                             args.beamparams)

\* C10: euler_beam_frf adds modes 1, 2, 3, ... in order and stops exactly
\* when the highest included mode passes 1.3*2*pi*fmax: on return column k
\* is mode k, at least one mode is included, the last included mode K has
\* w_K above 1.3*2*pi*fmax and every earlier included mode has w_k not
\* above it.  (A sweep with fmax <= 0 includes no mode and does not return:
\* its plots raise.)
C10_StopsAtCoverage ==
    /\ FrfReturned =>
          /\ InOrder
          /\ Len(ret.H) >= 1
          /\ ret.H[Len(ret.H)].wn > Coverage
          /\ \A k \in 1..(Len(ret.H) - 1) : ret.H[k].wn <= Coverage
    /\ fn = "euler_beam_frf" /\ pc = "done" /\ ret.status = "ZeroDivisionError"
          => i = 0 /\ Coverage <= 0

C10_Witness ==
    /\ FrfReturned
    /\ args.bctype = 1 /\ args.fmax = 50
    /\ Len(ret.H) >= 5
    /\ ret.H[2].wn = 0
    /\ ret.H[Len(ret.H)].wn > Coverage

----------------------------------------------------------------------------
(* The loop of euler_beam_frf and its buffers.                              *)

InFrf == fn = "euler_beam_frf" /\ pc # "idle"

\* the buffers a and f are never written outside their 100 entries, and a
\* call that has used all of them has ended in an error
WithinBuffers ==
    InFrf =>
        /\ i <= BufCols
        /\ pc = "frf_while" => i < BufCols
        /\ pc = "done" /\ loc # <<>> =>
              /\ DOMAIN loc.a = 1..BufCols
              /\ \A c \in 1..BufCols : loc.a[c].set <=> c <= i
        /\ pc = "done" /\ i = BufCols => ret.status = "IndexError"

\* C11: the mode-accumulation loop of euler_beam_frf always terminates: when
\* the natural frequencies never reach the coverage level the loop stops
\* after 100 modes and the call ends in an error; it never runs on and never
\* writes past its 100-entry buffers.
\* Termination is by a bounded variant: every step taken inside the loop
\* either ends the call or adds one to i, and i never passes BufCols, so a
\* call takes at most BufCols passes.
C11_LoopTerminates ==
    /\ []WithinBuffers
    /\ [][fn = "euler_beam_frf" /\ pc = "frf_while" =>
            /\ pc' = "done" \/ i' = i + 1
            /\ pc' \in {"frf_while", "done"}
            /\ pc' = "frf_while" => i' < BufCols]_vars

C11_Witness ==
    /\ fn = "euler_beam_frf" /\ pc = "done"
    /\ args.fmax > 0 /\ args.beamparams[1] = 0
    /\ i = BufCols
    /\ loc.a[BufCols].set
    /\ loc.wn[BufCols] = 0
    /\ ret.status = "IndexError"

\* xin or xout is off the beam of the call
OutsideBeam ==
    \/ args.xin < 0 \/ args.xin > args.beamparams[5]
    \/ args.xout < 0 \/ args.xout > args.beamparams[5]

\* C12: euler_beam_frf fails whenever xin or xout lies outside [0, L],
\* before any mode is computed or any contribution accumulated and without
\* returning a result; for positions inside [0, L], the ends 0 and L
\* included, this check never fails.
C12_PositionsChecked ==
    InFrf =>
        IF OutsideBeam
        THEN /\ pc = "done"
             /\ ret.status = "NameError"
             /\ i = 0
             /\ loc = <<>>
        ELSE /\ loc # <<>>
             /\ pc = "done" => ret.status # "NameError"

C12_Witness ==
    /\ fn = "euler_beam_frf" /\ pc = "done"
    /\ args.xin = 0 /\ args.xout = 3 /\ args.beamparams[5] = 2
    /\ ret.status = "NameError"
    /\ i = 0 /\ loc = <<>>

\* the contribution of mode k of the beam of the call, computed with the
\* eigenvalue, frequency and shape of mode k itself
OwnContribution(k) ==
    LET B == EigenvalueByIndex(args.bctype, [j \in 1..k |-> j], k).val
        shape == ModeForm(args.bctype, k, B)
    IN  [mode |-> k,
         rhoA |-> args.beamparams[3] * args.beamparams[4],
         Uin |-> [shape |-> shape, at |-> args.xin],
         Uout |-> [shape |-> shape, at |-> args.xout],
         wn |-> ModeFrequency(args.bctype, k, B, args.beamparams),
         zeta |-> args.zeta]

\* column c holds the contribution of mode c
OwnsColumn(col, c) ==
    /\ col.set
    /\ LET own == OwnContribution(c)
       IN  \A fld \in DOMAIN own : col[fld] = own[fld]

\* C13: what euler_beam_frf sums and returns is exactly the contributions
\* of the included modes 1..K: column k-1 holds
\* rho*A*U_k(xin)*U_k(xout)/(w_k^2 - w^2 + 2i*zeta*w_k*w) of mode k with its
\* own w_k and shape, is written before the sum, and no column of the
\* buffer beyond K is summed or returned.
C13_ColumnsAreModes ==
    /\ fn = "euler_beam_frf" /\ pc = "frf_while" =>
          /\ \A c \in 1..i : OwnsColumn(loc.a[c], c)
          /\ \A c \in (i + 1)..BufCols : ~loc.a[c].set
    /\ FrfReturned =>
          /\ Len(ret.H) = i
          /\ \A c \in 1..Len(ret.H) : OwnsColumn(ret.H[c], c)
          /\ \A c \in 1..i : ret.H[c] = loc.a[c]

C13_Witness ==
    /\ FrfReturned
    /\ args.bctype = 2 /\ args.fmax = 50 /\ args.xin = 1 /\ args.xout = 0
    /\ Len(ret.H) >= 3
    /\ Len(ret.H) < BufCols
    /\ ret.H[3].Uin.shape.k = 3
    /\ ret.H[3].wn > ret.H[2].wn
    /\ ~loc.a[Len(ret.H) + 1].set

----------------------------------------------------------------------------
(* Eigenvalues by boundary condition.                                       *)

ModesDone == fn = "euler_beam_modes" /\ pc = "done"

\* the mode indices of the request of the call
Indices == IF args.n.int THEN [j \in 1..args.n.count |-> j] ELSE args.n.list

\* C14: for the pinned-pinned boundary condition (bctype 6) the eigenvalue
\* of every requested mode index n[i] is n[i]*pi, for a scalar count and for
\* an explicit list alike: no table is read (no request can fail on one) and
\* the value does not depend on the position i in the request.
C14_PinnedPinned ==
    ModesDone /\ args.bctype = 6 =>
        /\ ret.status = "returned"
        /\ Len(ret.Bnl) = Len(Indices)
        /\ \A p \in 1..Len(Indices) :
              /\ ret.Bnl[p] = (Indices[p] * PiMicro) \div 1000
              /\ ret.w[p] = Frequency((Indices[p] * PiMicro) \div 1000,
                                      args.beamparams)
              /\ ret.form[p].form = "sin"
              /\ ret.form[p].B = ret.Bnl[p]
        /\ \A p, q \in 1..Len(Indices) :
              Indices[p] = Indices[q] => ret.Bnl[p] = ret.Bnl[q]

\* C15: for the free-free boundary condition (bctype 1) every requested
\* mode with index 1 or 2 is a rigid-body mode, with natural frequency 0 and
\* the fixed shape 1 (index 1) or x/L - 0.5 (index 2) before normalisation;
\* every requested mode with index >= 3 uses the cosh/cos/sinh/sin formula
\* with the eigenvalue of that index.
C15_FreeFree ==
    ModesDone /\ args.bctype = 1 =>
        /\ ret.status = "returned"
        /\ \A p \in 1..Len(Indices) :
              LET ni == Indices[p]
              IN  /\ ni = 1 => ret.w[p] = 0 /\ ret.form[p].form = "1"
                  /\ ni = 2 => ret.w[p] = 0 /\ ret.form[p].form = "len-0.5"
                  /\ ni >= 3 =>
                        /\ ret.form[p].form = "cosh+cos-sig*(sinh+sin)"
                        /\ ret.form[p].B =
                              EigenvalueByIndex(1, Indices, p).val
                        /\ ret.Bnl[p] = EigenvalueByIndex(1, Indices, p).val

\* the positions (from 1) at which the call reads its table: those of the
\* requested indices that the guard does not send to the closed form
TableReads ==
    {p \in 1..Len(Indices) :
        Indices[p] <= (IF args.bctype = 1 THEN 7 ELSE 4)}

\* C19: every read of a root table stays inside the table: for the boundary
\* conditions 1 to 5 and every request, the position read is one of the
\* entries of Bnllow, and no request ends in an index error.
C19_TableReadsInRange ==
    ModesDone /\ args.bctype \in 1..5 =>
        /\ ret.status # "IndexError"
        /\ ret.status = "returned" =>
              /\ \A p \in TableReads : p <= Len(Bnllow(args.bctype))
              /\ \A p \in TableReads : ret.Bnl[p] = Bnllow(args.bctype)[p]

C19_Witness ==
    /\ ModesDone /\ args.bctype = 2
    /\ args.n.int /\ args.n.count = 6
    /\ ret.status = "returned"
    /\ TableReads = 1..4
    /\ ret.Bnl[4] = 10990 /\ ret.Bnl[5] = 14137

----------------------------------------------------------------------------
(* Finite contributions, determinism.                                       *)

\* C16: euler_beam_frf never returns a contribution that is infinite or NaN:
\* for every boundary condition, sweep and zeta the divisor
\* w_k^2 - w^2 + 2i*zeta*w_k*w of every included mode is nonzero at every
\* sweep frequency, or the call ends in an error.
C16_FiniteContributions ==
    FrfReturned => \A c \in 1..Len(ret.H) : ret.H[c].finite

\* C17: the solvers are deterministic: the result of a call is fixed by its
\* arguments alone, so that two calls with equal arguments return equal
\* results whatever ran in between; here for euler_beam_modes, whose result
\* must not depend on what the memory it allocates happened to hold.
C17_Deterministic ==
    ModesDone =>
        \A junk \in Memories :
            ret = EulerBeamModes(args.n, args.bctype, args.beamparams,
                                 args.npoints, junk)

----------------------------------------------------------------------------
(* step_response.                                                           *)

StepDone == fn = "step_response" /\ pc = "done"

\* C18 as stated: for every valid m > 0, c >= 0, k > 0 step_response
\* computes x in the branch of the regime, the underdamped one whenever
\* zeta < 1, the undamped case c = 0 included, and ends in no error.
C18_AsStated ==
    StepDone /\ ValidOscillator =>
        /\ ret.status = "returned"
        /\ ret.branch = Regime(args.m, args.c, args.k)

\* C18 as amended: for m > 0, c > 0, k > 0 step_response computes x in
\* exactly the branch of the regime (underdamped for 0 < zeta < 1, critical
\* for zeta = 1, overdamped for zeta > 1) and ends in no error; for c = 0
\* (zeta = 0) no branch computes x and the call raises ValueError.  What
\* a callback runs while the figure is open changes neither.
C18_StepRegime ==
    fn = "step_response" /\ ValidOscillator =>
        /\ pc \in {"st_if", "st_show", "done"}
        /\ pc = "st_if" =>
              /\ loc.zeta.kind = "fin"
              /\ loc.zeta.sgn = 0 <=> args.c = 0
        /\ pc = "st_show" =>
              /\ args.c > 0
              /\ loc.branch = Regime(args.m, args.c, args.k)
              /\ loc.static = Q(args.Fo, args.k)
        /\ pc = "done" /\ args.c > 0 =>
              /\ ret.status = "returned"
              /\ ret.branch = Regime(args.m, args.c, args.k)
              /\ ret.static = Q(args.Fo, args.k)
        /\ pc = "done" /\ args.c = 0 => ret.status = "ValueError"

C18_Witness ==
    /\ StepDone /\ ValidOscillator
    /\ args.m = 2 /\ args.c = 0 /\ args.k = 2
    /\ Regime(args.m, args.c, args.k) = "under"
    /\ ret.status = "ValueError"

----------------------------------------------------------------------------
(* Order of the eigenvalues.                                                *)

\* the sequence never falls, and rises into every entry that is not a
\* rigid-body mode
Ascending(seq, bctype) ==
    \A p, q \in 1..Len(seq) :
        p < q =>
            /\ seq[p] <= seq[q]
            /\ ~(bctype = 1 /\ q \in {1, 2}) => seq[p] < seq[q]

\* C20: for a scalar count 1..N and every boundary condition the
\* eigenvalues returned by euler_beam_modes never decrease with the mode
\* index and increase strictly from the first non-rigid mode on, also where
\* the table gives way to the closed form (7 to 8 for free-free, 4 to 5 for
\* the clamped conditions); so do the natural frequencies of a beam with
\* stiffness, and the frequency of the last mode that euler_beam_frf tests
\* bounds that of every earlier included mode.
C20_EigenvaluesAscend ==
    /\ ModesDone /\ args.n.int /\ args.bctype \in 1..6 =>
          /\ ret.status = "returned"
          /\ Len(ret.Bnl) = args.n.count
          /\ Ascending(ret.Bnl, args.bctype)
          /\ \A p, q \in 1..Len(ret.w) : p < q => ret.w[p] <= ret.w[q]
          /\ args.beamparams[1] > 0 => Ascending(ret.w, args.bctype)
    /\ fn = "euler_beam_frf" /\ pc = "frf_while" /\ i > 0 =>
          /\ Len(loc.wn) = i
          /\ \A c \in 1..i : loc.a[c].wn = loc.wn[c] /\ loc.wn[c] <= loc.wn[i]
    /\ FrfReturned =>
          \A c \in 1..Len(ret.H) : ret.H[c].wn <= ret.H[Len(ret.H)].wn

C20_Witness ==
    /\ ModesDone /\ args.n.int /\ args.n.count = 8 /\ args.bctype = 1
    /\ args.beamparams[1] > 0
    /\ ret.Bnl[2] = 0 /\ ret.Bnl[3] = 4730
    /\ ret.Bnl[7] = 17279 /\ ret.Bnl[8] = 20420
    /\ ret.w[7] < ret.w[8]

====
